---- MODULE Spec2Model ----
(***************************************************************************)
(* Model of plot_obs-planning.ipynb: a notebook whose twelve code cells    *)
(* run once, top to bottom, and stop at the first cell that raises.        *)
(*                                                                         *)
(* Representation.                                                         *)
(*   - An instant is a number of hours since 2012-07-01 00:00:00.          *)
(*   - An array of hours (np.linspace, Time + Quantity array) is a record  *)
(*     [den, nums]: element i is the rational nums[i] / den, so that the   *)
(*     even spacing of linspace stays exact.                               *)
(*   - Angles are whole degrees; the observer's latitude and longitude     *)
(*     are tenths of a degree (41.3 deg is 413).                           *)
(*   - sec(z) is a fixed-point number in thousandths.                      *)
(*   - The notebook's namespace is env, a function from the names bound    *)
(*     so far to their values; reading a name outside DOMAIN env raises    *)
(*     NameError.                                                          *)
(*   - The library calls that leave the notebook (Sesame name resolution,  *)
(*     the coordinate transform, the ephemeris) are modelled by their      *)
(*     documented contract; what they compute from the sky is a choice     *)
(*     among a small family of trajectories.                               *)
(***************************************************************************)
EXTENDS Integers, Sequences, FiniteSets

VARIABLES inLat, inLon, pc, status, err, env, log, calls, plots,
          gBase, gStart, gStop, gNum, gOut

runVars == <<inLat, inLon, pc, status, err, env, log, calls, plots>>
gridVars == <<gBase, gStart, gStop, gNum, gOut>>
vars == <<inLat, inLon, pc, status, err, env, log, calls, plots,
          gBase, gStart, gStop, gNum, gOut>>

-----------------------------------------------------------------------------
(* Literals of the notebook *)

NightN == 100
NightStart == -2
NightStop == 10
FullN == 1000
FullStart == -12
FullStop == 12
UtcOffsetHours == -4
HeightM == 390
GreyThresholdDeg == 0
BlackThresholdDeg == -18
AirmassYMin == 1
AirmassYMax == 4

(* Bounds of the model *)

MaxN == 5

(* Latitude and longitude handed to EarthLocation, in tenths of a degree;
   413 and -740 are the notebook's own values. *)
Lats == {-910, -900, 413, 900, 950}
Lons == {-740, 2000}

(* What the external services can answer. *)
SkyPositions == {[ra |-> 23, dec |-> 31]}
Phases == {0, 100, 250}

-----------------------------------------------------------------------------
(* np.linspace(start, stop, num): endpoint=True, so the divisor is num - 1
   and the last element is set to stop; with num = 1 the result is [start]. *)

linspaceNoEndpoint(start, stop, num) ==
  [den |-> num,
   nums |-> [i \in 1..num |-> (i - 1) * (stop - start) + start * num]]

linspace(start, stop, num) ==
  LET div == num - 1
      delta == stop - start
  IN IF div > 0
       THEN [den |-> div,
             nums |-> [i \in 1..num |->
                         IF i = num THEN stop * div
                                    ELSE (i - 1) * delta + start * div]]
       ELSE [den |-> 1, nums |-> [i \in 1..num |-> start]]

(* Time("2012-7-DD HH:00:00"): hours since 2012-07-01 00:00:00. *)
Time(day, hour) == (day - 1) * 24 + hour

(* Time - Quantity, as in  Time(...) - utcoffset. *)
TimePlusOffset(t, q) == t + q

TimeMinus(t, q) == t - q

(* Time + Quantity array, as in  midnight + delta_midnight. *)
TimePlus(t, d) ==
  [den |-> d.den, nums |-> [i \in 1..Len(d.nums) |-> t * d.den + d.nums[i]]]

(* A single instant as an array of one element. *)
Scalar(t) == [den |-> 1, nums |-> <<t>>]

(* Time Grid Generator: base + linspace(start, stop, num). *)
TimeGrid(base, start, stop, num) == TimePlus(base, linspace(start, stop, num))

-----------------------------------------------------------------------------
(* EarthLocation(lat, lon, height): the latitude must lie in [-90, 90] deg,
   the longitude is wrapped at 180 deg, nothing else is validated. *)

LatitudeOkWide(lat) == lat >= -1800 /\ lat <= 1800

LatitudeOk(lat) == lat >= -900 /\ lat <= 900

WrapLon(lon) == ((lon + 1800) % 3600) - 1800

EarthLocation(lat, lon, height) ==
  [lat |-> lat, lon |-> WrapLon(lon), height |-> height]

-----------------------------------------------------------------------------
(* transform_to(AltAz(obstime, location)).  The result holds its spherical
   representation (data: the arctangent's longitude in (-180, 180] and the
   latitude), computed here from the sample's hour angle H; its alt is the
   latitude and its az the longitude as a Longitude, wrapped into [0, 360). *)

HourAngle(num, den, coord, loc, ph) ==
  (15 * num) \div den + loc.lon \div 10 - coord.ra + ph

AltAt(h) ==
  LET x == h % 360
  IN IF x <= 180 THEN 90 - x ELSE x - 270

RawAzAt(h) == 180 - ((h + 90) % 360)

WrapAzNone(a) == a

WrapAz(a) == a % 360

SamplesDropLast(obstime) == 1..(Len(obstime.nums) - 1)

Samples(obstime) == 1..Len(obstime.nums)

transform_to(coord, frame, ph) ==
  LET t == frame.obstime
      H(i) == HourAngle(t.nums[i], t.den, coord, frame.location, ph)
      lat == [i \in Samples(t) |-> AltAt(H(i))]
      lon == [i \in Samples(t) |-> RawAzAt(H(i))]
  IN [obstime |-> t,
      data |-> [lon |-> lon, lat |-> lat],
      alt |-> lat,
      az |-> [i \in Samples(t) |-> WrapAz(lon[i])]]

AltAz(obstime, location) == [obstime |-> obstime, location |-> location]

-----------------------------------------------------------------------------
(* AltAz.secz is 1 / sin(alt).  SinMilli is sin in thousandths. *)

SinTable ==
  << 17, 35, 52, 70, 87, 105, 122, 139, 156, 174, 191, 208, 225, 242, 259,
     276, 292, 309, 326, 342, 358, 375, 391, 407, 423, 438, 454, 469, 485,
     500, 515, 530, 545, 559, 574, 588, 602, 616, 629, 643, 656, 669, 682,
     695, 707, 719, 731, 743, 755, 766, 777, 788, 799, 809, 819, 829, 839,
     848, 857, 866, 875, 883, 891, 899, 906, 914, 921, 927, 934, 940, 946,
     951, 956, 961, 966, 970, 974, 978, 982, 985, 988, 990, 993, 995, 996,
     998, 999, 999, 1000, 1000 >>

SinMilli(d) ==
  IF d = 0 THEN 0
  ELSE IF d > 0 THEN SinTable[d] ELSE 0 - SinTable[0 - d]

Finite(m) == [kind |-> "finite", milli |-> m]
Infinite == [kind |-> "inf", milli |-> 0]
BelowHorizon == [kind |-> "below_horizon", milli |-> 0]

seczGuarded(alt) ==
  IF alt <= 0 THEN BelowHorizon
  ELSE Finite(1000000 \div SinMilli(alt))

secz1(alt) ==
  LET s == SinMilli(alt)
  IN IF s = 0 THEN Infinite
     ELSE IF s > 0 THEN Finite(1000000 \div s)
     ELSE Finite(0 - (1000000 \div (0 - s)))

secz(altaz) == [i \in 1..Len(altaz.alt) |-> secz1(altaz.alt[i])]

-----------------------------------------------------------------------------
(* The boolean masks handed to fill_between:  alt < threshold. *)

BelowOrAt(a, thr) == a <= thr

Below(a, thr) == a < thr

Mask(alts, thr) == [i \in 1..Len(alts) |-> Below(alts[i], thr)]

-----------------------------------------------------------------------------
(* The code cells, in document order, and the names each reads and binds. *)

CellOrderAltazLate ==
  << "style", "imports", "from_name", "location", "night", "secz",
     "airmass_plot", "altaz", "sun", "moon", "m33_full", "altitude_plot" >>

CellOrderSeczFirst ==
  << "style", "imports", "from_name", "location", "altaz", "secz", "night",
     "airmass_plot", "sun", "moon", "m33_full", "altitude_plot" >>

CellOrder ==
  << "style", "imports", "from_name", "location", "altaz", "night", "secz",
     "airmass_plot", "sun", "moon", "m33_full", "altitude_plot" >>

Reads(c) ==
  CASE c = "style" -> {}
    [] c = "imports" -> {}
    [] c = "from_name" -> {"SkyCoord"}
    [] c = "location" -> {"EarthLocation", "u", "Time"}
    [] c = "altaz" -> {"m33", "AltAz", "time", "bear_mountain"}
    [] c = "night" -> {"Time", "utcoffset", "np", "u", "AltAz",
                       "bear_mountain", "m33"}
    [] c = "secz" -> {"m33altazs_July13night"}
    [] c = "airmass_plot" -> {"plt", "delta_midnight",
                              "m33airmasss_July13night"}
    [] c = "sun" -> {"np", "u", "midnight", "AltAz", "bear_mountain"}
    [] c = "moon" -> {"times_July12_to_13", "frame_July12_to_13"}
    [] c = "m33_full" -> {"m33", "frame_July12_to_13"}
    [] c = "altitude_plot" -> {"plt", "np", "u", "delta_midnight",
                               "sunaltazs_July12_to_13",
                               "moonaltazs_July12_to_13",
                               "m33altazs_July12_to_13"}

Bind(e, n, v) == [k \in DOMAIN e \cup {n} |-> IF k = n THEN v ELSE e[k]]

BindAll(e, ns, v) == [k \in DOMAIN e \cup ns |-> IF k \in ns THEN v ELSE e[k]]

Call(fn, obstime) == [fn |-> fn, obstime |-> obstime]

NoTime == [den |-> 1, nums |-> <<>>]

-----------------------------------------------------------------------------
(* Running a cell.  A cell runs when the run has not failed and the cell is
   the next one of the document; it either completes, and the next cell
   becomes current, or raises, and the run stops there with the names bound
   before the raising statement kept. *)

RunnableRetry(c) ==
  /\ pc <= Len(CellOrder)
  /\ CellOrder[pc] = c

Runnable(c) ==
  /\ status = "running"
  /\ pc <= Len(CellOrder)
  /\ CellOrder[pc] = c

Entry(c, ok, e2) ==
  [cell |-> c, ok |-> ok, reads |-> Reads(c),
   writes |-> {n \in DOMAIN e2 : IF n \in DOMAIN env THEN e2[n] # env[n]
                                                     ELSE TRUE}]

Complete(c, e2) ==
  /\ env' = e2
  /\ pc' = pc + 1
  /\ log' = Append(log, Entry(c, TRUE, e2))
  /\ UNCHANGED <<status, err>>

Raise(c, x, e2) ==
  /\ env' = e2
  /\ status' = "failed"
  /\ err' = x
  /\ log' = Append(log, Entry(c, FALSE, e2))
  /\ UNCHANGED pc

Unbound(c) == Reads(c) \ DOMAIN env

NameError(c) ==
  /\ Raise(c, "NameError", env)
  /\ UNCHANGED <<calls, plots>>

-----------------------------------------------------------------------------
(* The ephemeris: get_sun(times) and get_body("moon", times). *)

get_sun(times) == [body |-> "sun", ra |-> 111, dec |-> 22, obstime |-> times]

get_body(body, times) ==
  [body |-> body, ra |-> 50, dec |-> 15, obstime |-> times]

-----------------------------------------------------------------------------
(* import matplotlib.pyplot as plt; import numpy as np; plt.style.use(...) *)
CellStyle ==
  /\ Runnable("style")
  /\ IF Unbound("style") # {} THEN NameError("style")
     ELSE /\ Complete("style", BindAll(env, {"plt", "np"}, "module"))
          /\ UNCHANGED <<calls, plots>>

(* import astropy.units as u; from astropy.coordinates import ... *)
CellImports ==
  /\ Runnable("imports")
  /\ IF Unbound("imports") # {} THEN NameError("imports")
     ELSE /\ Complete("imports",
                      BindAll(env, {"u", "AltAz", "EarthLocation", "SkyCoord",
                                    "Time"}, "module"))
          /\ UNCHANGED <<calls, plots>>

(* m33 = SkyCoord.from_name("M33") *)
CellFromName ==
  /\ Runnable("from_name")
  /\ IF Unbound("from_name") # {} THEN NameError("from_name")
     ELSE /\ calls' = Append(calls, Call("from_name", NoTime))
          /\ UNCHANGED plots
          /\ \/ \E p \in SkyPositions :
                  Complete("from_name", Bind(env, "m33", p))
             \/ Raise("from_name", "ResolutionError", env)

(* bear_mountain = EarthLocation(...); utcoffset = -4 * u.hour;
   time = Time("2012-7-12 23:00:00") - utcoffset *)
CellLocation ==
  /\ Runnable("location")
  /\ UNCHANGED <<calls, plots>>
  /\ IF Unbound("location") # {} THEN Raise("location", "NameError", env)
     ELSE IF ~LatitudeOk(inLat)
       THEN Raise("location", "InvalidLocationError", env)
       ELSE LET e1 == Bind(env, "bear_mountain",
                           EarthLocation(inLat, inLon, HeightM))
                e2 == Bind(e1, "utcoffset", UtcOffsetHours)
                e3 == Bind(e2, "time", TimeMinus(Time(12, 23), e2["utcoffset"]))
            IN Complete("location", e3)

(* m33altaz = m33.transform_to(AltAz(obstime=time, location=bear_mountain)) *)
CellAltAz ==
  /\ Runnable("altaz")
  /\ IF Unbound("altaz") # {} THEN NameError("altaz")
     ELSE LET frame == AltAz(Scalar(env["time"]), env["bear_mountain"])
          IN /\ calls' = Append(calls, Call("transform_to", frame.obstime))
             /\ UNCHANGED plots
             /\ \/ \E ph \in Phases :
                     Complete("altaz",
                              Bind(env, "m33altaz",
                                   transform_to(env["m33"], frame, ph)))
                \/ Raise("altaz", "ComputationError", env)

(* midnight = Time("2012-7-13 00:00:00") - utcoffset
   delta_midnight = np.linspace(-2, 10, 100) * u.hour
   frame_July13night = AltAz(obstime=midnight + delta_midnight, ...)
   m33altazs_July13night = m33.transform_to(frame_July13night) *)
CellNight ==
  /\ Runnable("night")
  /\ IF Unbound("night") # {} THEN NameError("night")
     ELSE LET e1 == Bind(env, "midnight",
                         TimeMinus(Time(13, 0), env["utcoffset"]))
              e2 == Bind(e1, "delta_midnight",
                         linspace(NightStart, NightStop, NightN))
              e3 == Bind(e2, "frame_July13night",
                         AltAz(TimePlus(e2["midnight"], e2["delta_midnight"]),
                               e2["bear_mountain"]))
              frame == e3["frame_July13night"]
          IN /\ calls' = Append(calls, Call("transform_to", frame.obstime))
             /\ UNCHANGED plots
             /\ \/ \E ph \in Phases :
                     Complete("night",
                              Bind(e3, "m33altazs_July13night",
                                   transform_to(e3["m33"], frame, ph)))
                \/ Raise("night", "ComputationError", e3)

(* m33airmasss_July13night = m33altazs_July13night.secz *)
CellSecz ==
  /\ Runnable("secz")
  /\ UNCHANGED <<calls, plots>>
  /\ IF Unbound("secz") # {} THEN Raise("secz", "NameError", env)
     ELSE Complete("secz", Bind(env, "m33airmasss_July13night",
                                secz(env["m33altazs_July13night"])))

(* plt.plot(delta_midnight, m33airmasss_July13night); plt.xlim(-2, 10);
   plt.ylim(1, 4); plt.show().  plot raises ValueError when x and y differ
   in length. *)
CellAirmassPlot ==
  /\ Runnable("airmass_plot")
  /\ UNCHANGED calls
  /\ IF Unbound("airmass_plot") # {}
       THEN Raise("airmass_plot", "NameError", env) /\ UNCHANGED plots
     ELSE LET x == env["delta_midnight"]
              y == env["m33airmasss_July13night"]
          IN IF Len(x.nums) # Len(y)
               THEN Raise("airmass_plot", "ValueError", env) /\ UNCHANGED plots
               ELSE /\ plots' = Append(plots,
                                       [kind |-> "airmass", x |-> x, y |-> y,
                                        xlim |-> <<NightStart, NightStop>>,
                                        ylim |-> <<AirmassYMin, AirmassYMax>>])
                    /\ Complete("airmass_plot", env)

(* from astropy.coordinates import get_sun
   delta_midnight = np.linspace(-12, 12, 1000) * u.hour
   times_July12_to_13 = midnight + delta_midnight
   frame_July12_to_13 = AltAz(obstime=times_July12_to_13, ...)
   sunaltazs_July12_to_13 = get_sun(times_July12_to_13).transform_to(...) *)
CellSun ==
  /\ Runnable("sun")
  /\ IF Unbound("sun") # {} THEN NameError("sun")
     ELSE LET e1 == Bind(env, "get_sun", "module")
              e2 == Bind(e1, "delta_midnight",
                         linspace(FullStart, FullStop, FullN))
              e3 == Bind(e2, "times_July12_to_13",
                         TimePlus(e2["midnight"], e2["delta_midnight"]))
              e4 == Bind(e3, "frame_July12_to_13",
                         AltAz(e3["times_July12_to_13"], e3["bear_mountain"]))
              sun == get_sun(e4["times_July12_to_13"])
              frame == e4["frame_July12_to_13"]
          IN /\ calls' = calls \o << Call("get_sun", sun.obstime),
                                     Call("transform_to", frame.obstime) >>
             /\ UNCHANGED plots
             /\ \/ \E ph \in Phases :
                     Complete("sun", Bind(e4, "sunaltazs_July12_to_13",
                                          transform_to(sun, frame, ph)))
                \/ Raise("sun", "ComputationError", e4)

(* from astropy.coordinates import get_body
   moon_July12_to_13 = get_body("moon", times_July12_to_13)
   moonaltazs_July12_to_13 = moon_July12_to_13.transform_to(...) *)
CellMoon ==
  /\ Runnable("moon")
  /\ IF Unbound("moon") # {} THEN NameError("moon")
     ELSE LET e1 == Bind(env, "get_body", "module")
              moon == get_body("moon", e1["times_July12_to_13"])
              e2 == Bind(e1, "moon_July12_to_13", moon)
              frame == e2["frame_July12_to_13"]
          IN /\ UNCHANGED plots
             /\ \/ /\ calls' = Append(calls, Call("get_body", moon.obstime))
                   /\ Raise("moon", "NetworkError", e1)
                \/ /\ calls' = calls \o << Call("get_body", moon.obstime),
                                           Call("transform_to", frame.obstime) >>
                   /\ \/ \E ph \in Phases :
                           Complete("moon",
                                    Bind(e2, "moonaltazs_July12_to_13",
                                         transform_to(moon, frame, ph)))
                      \/ Raise("moon", "ComputationError", e2)

(* m33altazs_July12_to_13 = m33.transform_to(frame_July12_to_13) *)
CellM33Full ==
  /\ Runnable("m33_full")
  /\ IF Unbound("m33_full") # {} THEN NameError("m33_full")
     ELSE LET frame == env["frame_July12_to_13"]
          IN /\ calls' = Append(calls, Call("transform_to", frame.obstime))
             /\ UNCHANGED plots
             /\ \/ \E ph \in Phases :
                     Complete("m33_full",
                              Bind(env, "m33altazs_July12_to_13",
                                   transform_to(env["m33"], frame, ph)))
                \/ Raise("m33_full", "ComputationError", env)

(* plt.plot(delta_midnight, sun alt); plt.plot(delta_midnight, moon alt);
   plt.scatter(delta_midnight, m33 alt, c=m33 az);
   plt.fill_between(delta_midnight, 0, 90, sun alt < -0 deg, color="0.5");
   plt.fill_between(delta_midnight, 0, 90, sun alt < -18 deg, color="k");
   ...; plt.show() *)
CellAltitudePlot ==
  /\ Runnable("altitude_plot")
  /\ UNCHANGED calls
  /\ IF Unbound("altitude_plot") # {}
       THEN Raise("altitude_plot", "NameError", env) /\ UNCHANGED plots
     ELSE LET x == env["delta_midnight"]
              sun == env["sunaltazs_July12_to_13"]
              moon == env["moonaltazs_July12_to_13"]
              m33s == env["m33altazs_July12_to_13"]
              n == Len(x.nums)
          IN IF \/ Len(sun.alt) # n
                \/ Len(moon.alt) # n
                \/ Len(m33s.alt) # n
               THEN Raise("altitude_plot", "ValueError", env)
                    /\ UNCHANGED plots
               ELSE /\ plots' =
                         Append(plots,
                                [kind |-> "altitude", x |-> x,
                                 sun |-> sun.alt, moon |-> moon.alt,
                                 m33 |-> m33s.alt, colour |-> m33s.az,
                                 grey |-> Mask(sun.alt, GreyThresholdDeg),
                                 black |-> Mask(sun.alt, BlackThresholdDeg)])
                    /\ Complete("altitude_plot", env)

-----------------------------------------------------------------------------
(* The run of the notebook. *)

Init ==
  /\ inLat \in Lats
  /\ inLon \in Lons
  /\ pc = 1
  /\ status = "running"
  /\ err = "none"
  /\ env = <<>>
  /\ log = <<>>
  /\ calls = <<>>
  /\ plots = <<>>
  /\ gBase = 0 /\ gStart = 0 /\ gStop = 0 /\ gNum = 1
  /\ gOut = NoTime

Next ==
  \/ CellStyle /\ UNCHANGED <<inLat, inLon>> /\ UNCHANGED gridVars
  \/ CellImports /\ UNCHANGED <<inLat, inLon>> /\ UNCHANGED gridVars
  \/ CellFromName /\ UNCHANGED <<inLat, inLon>> /\ UNCHANGED gridVars
  \/ CellLocation /\ UNCHANGED <<inLat, inLon>> /\ UNCHANGED gridVars
  \/ CellAltAz /\ UNCHANGED <<inLat, inLon>> /\ UNCHANGED gridVars
  \/ CellNight /\ UNCHANGED <<inLat, inLon>> /\ UNCHANGED gridVars
  \/ CellSecz /\ UNCHANGED <<inLat, inLon>> /\ UNCHANGED gridVars
  \/ CellAirmassPlot /\ UNCHANGED <<inLat, inLon>> /\ UNCHANGED gridVars
  \/ CellSun /\ UNCHANGED <<inLat, inLon>> /\ UNCHANGED gridVars
  \/ CellMoon /\ UNCHANGED <<inLat, inLon>> /\ UNCHANGED gridVars
  \/ CellM33Full /\ UNCHANGED <<inLat, inLon>> /\ UNCHANGED gridVars
  \/ CellAltitudePlot /\ UNCHANGED <<inLat, inLon>> /\ UNCHANGED gridVars

Spec == Init /\ [][Next]_vars

-----------------------------------------------------------------------------
(* The Time Grid Generator on its own: base + linspace(start, stop, num)
   for inputs drawn from small sets that hold the notebook's two grids. *)

GridBases == {0, TimeMinus(Time(13, 0), UtcOffsetHours)}
GridOffsets == {NightStart, NightStop, FullStart, FullStop, 0, 3}
GridCounts == (1..MaxN) \cup {NightN, FullN}

InitGrid ==
  /\ inLat = 413 /\ inLon = -740
  /\ pc = 1
  /\ status = "running"
  /\ err = "none"
  /\ env = <<>>
  /\ log = <<>>
  /\ calls = <<>>
  /\ plots = <<>>
  /\ gBase \in GridBases
  /\ gStart \in GridOffsets
  /\ gStop \in GridOffsets
  /\ gNum \in GridCounts
  /\ gOut = NoTime

Generate ==
  /\ gOut = NoTime
  /\ gOut' = TimeGrid(gBase, gStart, gStop, gNum)
  /\ UNCHANGED <<gBase, gStart, gStop, gNum>>
  /\ UNCHANGED runVars

NextGrid == Generate

SpecGrid == InitGrid /\ [][NextGrid]_vars

-----------------------------------------------------------------------------
(* Shorthands of the properties below. *)

Last(s) == s[Len(s)]
Failed == status = "failed"
Finished == pc > Len(CellOrder)
Ran(c) == \E i \in DOMAIN log : log[i].cell = c
FailedIn(c) == Failed /\ Last(log).cell = c
Bound(n) == n \in DOMAIN env
AltAzNames ==
  {"m33altaz", "m33altazs_July13night", "sunaltazs_July12_to_13",
   "moonaltazs_July12_to_13", "m33altazs_July12_to_13"}
PlotsOf(k) == {i \in DOMAIN plots : plots[i].kind = k}
CallsOf(fn) == {i \in DOMAIN calls : calls[i].fn = fn}
TimedCalls ==
  {i \in DOMAIN calls : calls[i].fn \in {"transform_to", "get_sun", "get_body"}}
GridDone == gOut # NoTime

-----------------------------------------------------------------------------
(* C1: the time grid generator, for a base, a start and end offset and a
   count N, yields exactly N points; for N > 1 the first is base+start, the
   last is base+end and all consecutive points differ by (end-start)/(N-1);
   for N = 1 it yields exactly one point.  Checked under SpecGrid, whose
   inputs hold N=100 over [-2h, 10h] and N=1000 over [-12h, 12h]. *)
C1_TimeGridEvenlySpaced ==
  GridDone =>
    /\ Len(gOut.nums) = gNum
    /\ gOut.den > 0
    /\ gNum > 1 =>
         /\ gOut.nums[1] = (gBase + gStart) * gOut.den
         /\ gOut.nums[gNum] = (gBase + gStop) * gOut.den
         /\ \A i \in 1..(gNum - 1) :
              (gOut.nums[i + 1] - gOut.nums[i]) * (gNum - 1)
                = (gStop - gStart) * gOut.den

C1_Witness ==
  /\ GridDone
  /\ gNum = NightN /\ gStart = NightStart /\ gStop = NightStop
  /\ gBase # 0
  /\ Len(gOut.nums) = NightN

-----------------------------------------------------------------------------
(* C2, as stated: in the altitude plot the grey mask is set exactly on the
   samples with Sun altitude < 0 deg (twilight or night) and the black mask
   exactly on the samples with Sun altitude <= -18 deg (night). *)
C2_MasksAsClaimed ==
  \A p \in PlotsOf("altitude") :
    \A i \in DOMAIN plots[p].sun :
      /\ plots[p].grey[i] <=> (plots[p].sun[i] < 0)
      /\ plots[p].black[i] <=> (plots[p].sun[i] <= -18)

(* C2, amended: the grey mask is set exactly on the samples with Sun
   altitude < 0 deg and the black mask exactly on those with altitude
   < -18 deg; so every sample is exactly one of unshaded (altitude >= 0),
   grey only (-18 <= altitude < 0) and black (altitude < -18), and a sample
   at exactly -18 deg is grey, not black. *)
C2_MasksStrict ==
  \A p \in PlotsOf("altitude") :
    \A i \in DOMAIN plots[p].sun :
      LET a == plots[p].sun[i]
          g == plots[p].grey[i]
          b == plots[p].black[i]
      IN /\ (~g /\ ~b) <=> (a >= 0)
         /\ (g /\ ~b) <=> (a >= -18 /\ a < 0)
         /\ (g /\ b) <=> (a < -18)
         /\ b => g

C2_Witness ==
  \E p \in PlotsOf("altitude") :
    /\ \E i \in DOMAIN plots[p].sun : plots[p].sun[i] = -18
    /\ \E i \in DOMAIN plots[p].sun : plots[p].sun[i] = 0
    /\ \E i \in DOMAIN plots[p].sun : plots[p].sun[i] < -18

-----------------------------------------------------------------------------
(* C3, as stated: when name resolution or any horizon transform has failed,
   no plot has been shown in the run. *)
C3_NoPlotOnFailure ==
  (Failed /\ err \in {"ResolutionError", "ComputationError"}) => plots = <<>>

(* C3, amended: when name resolution, the single-instant transform or the
   night-window transform has failed, no plot has been shown; when the Sun,
   Moon or target transform over the noon-to-noon window has failed, the
   altitude plot has not been shown and the airmass plot, drawn before, is
   the only plot shown. *)
C3_NoDependentPlotOnFailure ==
  (Failed /\ err \in {"ResolutionError", "ComputationError"}) =>
    /\ PlotsOf("altitude") = {}
    /\ Last(log).cell \in {"from_name", "altaz", "night"} => plots = <<>>
    /\ Last(log).cell \in {"sun", "moon", "m33_full"} =>
         Len(plots) = 1 /\ plots[1].kind = "airmass"

C3_Witness ==
  /\ FailedIn("sun")
  /\ err = "ComputationError"
  /\ Len(plots) = 1

-----------------------------------------------------------------------------
(* C4: name resolution and the Moon ephemeris lookup are each attempted at
   most once; a failure is the last thing that happens in a run: the error
   is recorded, the failing cell stays the current one and no cell has run
   after it. *)
C4_NoRetryNoRecovery ==
  /\ Cardinality(CallsOf("from_name")) <= 1
  /\ Cardinality(CallsOf("get_body")) <= 1
  /\ \A i \in 1..(Len(log) - 1) : log[i].ok
  /\ Failed <=> (log # <<>> /\ ~Last(log).ok)
  /\ Failed <=> err # "none"
  /\ Failed => /\ pc <= Len(CellOrder)
               /\ CellOrder[pc] = Last(log).cell
               /\ Len(log) = pc

C4_Witness ==
  /\ FailedIn("moon")
  /\ err = "NetworkError"
  /\ Cardinality(CallsOf("from_name")) = 1
  /\ Cardinality(CallsOf("get_body")) = 1

-----------------------------------------------------------------------------
(* C5: with a latitude outside [-90, 90] deg the cell that builds the
   observer location fails with InvalidLocationError, and in that run no
   observer location is bound, no transform is called, no horizon coordinate
   is bound and no plot is shown; with the latitude in [-90, 90] and the
   longitude in [-180, 180] that cell does not fail and binds the location
   with the values given. *)
C5_LatitudeValidated ==
  /\ (inLat < -900 \/ inLat > 900) =>
       /\ ~Bound("bear_mountain")
       /\ CallsOf("transform_to") = {}
       /\ AltAzNames \cap DOMAIN env = {}
       /\ plots = <<>>
       /\ Ran("location") =>
            FailedIn("location") /\ err = "InvalidLocationError"
  /\ (inLat >= -900 /\ inLat <= 900 /\ inLon >= -1800 /\ inLon <= 1800) =>
       /\ ~FailedIn("location")
       /\ Ran("location") =>
            /\ Bound("bear_mountain")
            /\ env["bear_mountain"] =
                 [lat |-> inLat, lon |-> inLon, height |-> 390]

C5_Witness ==
  /\ inLat = 950
  /\ FailedIn("location")
  /\ err = "InvalidLocationError"
  /\ Bound("m33")

-----------------------------------------------------------------------------
(* C6, as stated: every sample of the night window with altitude <= 0 deg
   has an airmass that is no ordinary number (a sentinel or a flag), and
   every sample with altitude > 0 deg has airmass 1/cos(90 deg - altitude). *)
C6_BelowHorizonExplicit ==
  Bound("m33airmasss_July13night") =>
    \A i \in DOMAIN env["m33airmasss_July13night"] :
      LET a == env["m33altazs_July13night"].alt[i]
          m == env["m33airmasss_July13night"][i]
      IN /\ a <= 0 => m.kind # "finite"
         /\ a > 0 => /\ m.kind = "finite"
                     /\ m.milli * SinMilli(a) <= 1000000
                     /\ 1000000 - m.milli * SinMilli(a) < SinMilli(a)

(* C6, amended: the airmass of every sample of the night window with
   altitude other than 0 deg is the plain 1/cos(90 deg - altitude) =
   1/sin(altitude), which for a sample below the horizon is an ordinary
   negative number (no sentinel, no flag); only at exactly 0 deg is it
   infinite.  The airmass plot draws these values unchanged, against 100
   x values, with its y axis limited to [1, 4]. *)
C6_PlainSecant ==
  /\ Bound("m33airmasss_July13night") =>
       /\ Len(env["m33airmasss_July13night"]) = NightN
       /\ \A i \in DOMAIN env["m33airmasss_July13night"] :
            LET a == env["m33altazs_July13night"].alt[i]
                m == env["m33airmasss_July13night"][i]
                sin == SinMilli(a)
                abs == IF sin < 0 THEN 0 - sin ELSE sin
            IN /\ a = 0 => m.kind = "inf"
               /\ a # 0 => /\ m.kind = "finite"
                           /\ m.milli * sin <= 1000000
                           /\ 1000000 - m.milli * sin < abs
               /\ a < 0 => m.milli < 0
  /\ \A p \in PlotsOf("airmass") :
       /\ plots[p].y = env["m33airmasss_July13night"]
       /\ plots[p].ylim = <<1, 4>>

C6_Witness ==
  /\ PlotsOf("airmass") # {}
  /\ \E i \in 1..NightN : env["m33altazs_July13night"].alt[i] < 0
  /\ \E i \in 1..NightN : env["m33altazs_July13night"].alt[i] = 0
  /\ \E i \in 1..NightN : env["m33altazs_July13night"].alt[i] > 0

-----------------------------------------------------------------------------
(* C7: every horizon coordinate bound in the run has its altitude in
   [-90, 90] deg and its azimuth in [0, 360) deg; the azimuth is the
   representation's longitude wrapped (equal to it modulo 360), and the
   altitude of the same sample is the representation's latitude, untouched
   by the wrap. *)
C7_HorizonRanges ==
  \A n \in AltAzNames \cap DOMAIN env :
    /\ DOMAIN env[n].az = DOMAIN env[n].alt
    /\ \A i \in DOMAIN env[n].alt :
         /\ env[n].alt[i] >= -90 /\ env[n].alt[i] <= 90
         /\ env[n].az[i] >= 0 /\ env[n].az[i] < 360
         /\ (env[n].az[i] - env[n].data.lon[i]) % 360 = 0
         /\ env[n].alt[i] = env[n].data.lat[i]

C7_Witness ==
  /\ AltAzNames \subseteq DOMAIN env
  /\ \E i \in 1..FullN :
       /\ env["m33altazs_July12_to_13"].data.lon[i] < 0
       /\ env["m33altazs_July12_to_13"].az[i] >= 180
  /\ \E i \in 1..FullN : env["sunaltazs_July12_to_13"].alt[i] = -90
  /\ \E i \in 1..FullN : env["sunaltazs_July12_to_13"].alt[i] = 90

-----------------------------------------------------------------------------
(* C8: every cell that has started read only names that an earlier,
   completed cell had bound; the cells started are the first cells of the
   document, each once and in document order, and none raised NameError. *)
C8_ForwardDataFlow ==
  /\ \A i \in DOMAIN log :
       /\ \A r \in log[i].reads :
            \E j \in 1..(i - 1) : log[j].ok /\ r \in log[j].writes
       /\ log[i].cell = CellOrder[i]
       /\ \A j \in 1..(i - 1) : log[j].cell # log[i].cell
  /\ err # "NameError"
  /\ pc = Len(log) + (IF Failed THEN 0 ELSE 1)

C8_Witness ==
  /\ Finished
  /\ Len(log) = 12
  /\ Len(plots) = 2
  /\ \E j \in DOMAIN log :
       log[j].cell = "sun" /\ "delta_midnight" \in log[j].writes

-----------------------------------------------------------------------------
(* C9: the declared offset is -4 h; every instant handed to a transform or
   to the Sun or Moon lookup is the local instant minus that offset: the
   single instant is local July 12 23:00 plus 4 h, sample i of the 100-point
   grid is local July 13 00:00 plus 4 h plus (-2 + 12 (i-1)/99) h, and
   sample i of the 1000-point grid is local July 13 00:00 plus 4 h plus
   (-12 + 24 (i-1)/999) h; the x values of the two plots are those offsets
   from local midnight, without the 4 h. *)
C9_OffsetAppliedOnce ==
  /\ Bound("utcoffset") => env["utcoffset"] = -4
  /\ \A k \in TimedCalls :
       LET t == calls[k].obstime
           n == Len(t.nums)
       IN /\ n \in {1, NightN, FullN}
          /\ n = 1 => t.den = 1 /\ t.nums[1] = Time(12, 23) + 4
          /\ n = NightN =>
               /\ t.den = 99
               /\ \A i \in 1..n :
                    t.nums[i] = (Time(13, 0) + 4) * 99 + (-2 * 99 + 12 * (i - 1))
          /\ n = FullN =>
               /\ t.den = 999
               /\ \A i \in 1..n :
                    t.nums[i] =
                      (Time(13, 0) + 4) * 999 + (-12 * 999 + 24 * (i - 1))
  /\ \A p \in PlotsOf("airmass") :
       /\ plots[p].x.den = 99
       /\ \A i \in 1..NightN : plots[p].x.nums[i] = -2 * 99 + 12 * (i - 1)
  /\ \A p \in PlotsOf("altitude") :
       /\ plots[p].x.den = 999
       /\ \A i \in 1..FullN : plots[p].x.nums[i] = -12 * 999 + 24 * (i - 1)

C9_Witness ==
  /\ Finished
  /\ Cardinality(CallsOf("transform_to")) = 5
  /\ Cardinality(CallsOf("get_sun")) = 1
  /\ Cardinality(CallsOf("get_body")) = 1
  /\ Len(plots) = 2

-----------------------------------------------------------------------------
(* C10: every horizon series bound has one altitude and one azimuth per
   sample of the grid it was computed over, tagged with that grid (1 for the
   single instant, 100 for the night window, 1000 for the Sun, the Moon and
   the target over the noon-to-noon window); the airmass plot draws 100 x
   values against 100 y values computed over midnight + x, and the altitude
   plot draws 1000 x values against five series of 1000 values computed over
   midnight + x. *)
C10_OnePerSample ==
  /\ \A n \in AltAzNames \cap DOMAIN env :
       LET f == CASE n = "m33altaz" -> Scalar(env["time"])
                  [] n = "m33altazs_July13night" ->
                       env["frame_July13night"].obstime
                  [] OTHER -> env["frame_July12_to_13"].obstime
           k == CASE n = "m33altaz" -> 1
                  [] n = "m33altazs_July13night" -> NightN
                  [] OTHER -> FullN
       IN /\ Len(f.nums) = k
          /\ env[n].obstime = f
          /\ Len(env[n].alt) = k
          /\ Len(env[n].az) = k
  /\ \A p \in PlotsOf("airmass") :
       /\ Len(plots[p].x.nums) = NightN
       /\ Len(plots[p].y) = NightN
       /\ plots[p].y = secz(env["m33altazs_July13night"])
       /\ env["m33altazs_July13night"].obstime =
            TimePlus(env["midnight"], plots[p].x)
  /\ \A p \in PlotsOf("altitude") :
       /\ Len(plots[p].x.nums) = FullN
       /\ \A ser \in {plots[p].sun, plots[p].moon, plots[p].m33,
                      plots[p].colour} : Len(ser) = FullN
       /\ Len(plots[p].grey) = FullN /\ Len(plots[p].black) = FullN
       /\ plots[p].sun = env["sunaltazs_July12_to_13"].alt
       /\ plots[p].moon = env["moonaltazs_July12_to_13"].alt
       /\ plots[p].m33 = env["m33altazs_July12_to_13"].alt
       /\ plots[p].colour = env["m33altazs_July12_to_13"].az
       /\ \A n \in {"sunaltazs_July12_to_13", "moonaltazs_July12_to_13",
                    "m33altazs_July12_to_13"} :
            env[n].obstime = TimePlus(env["midnight"], plots[p].x)
       /\ plots[p].x # plots[1].x

C10_Witness ==
  /\ Len(plots) = 2
  /\ plots[1].kind = "airmass" /\ Len(plots[1].x.nums) = NightN
  /\ plots[2].kind = "altitude" /\ Len(plots[2].x.nums) = FullN
  /\ Len(env["delta_midnight"].nums) = FullN

====
